---- MODULE Spec2Model ----
(***************************************************************************)
(* The session state machine of the Infinite Cortex game (src/App.tsx):    *)
(* the React state `gameState`, the browser's localStorage slot, and the   *)
(* asynchronous work the handlers leave behind (content requests in        *)
(* flight, pending setTimeout callbacks with the closures they captured).  *)
(*                                                                         *)
(* Every handler runs to completion on the single JavaScript thread, and   *)
(* all its setGameState updaters are applied in order before the next      *)
(* event is handled, so one action is one handler together with the        *)
(* render and the effects it causes.  A closure that outlives its render   *)
(* (the continuation after an await, a setTimeout callback) keeps the      *)
(* values it captured; those are recorded with the pending work.           *)
(*                                                                         *)
(* A JavaScript object is a function from its property names; a property  *)
(* that is not there is a name outside the DOMAIN.  Strings that the code  *)
(* computes with are tuples of one-character strings, so that toLowerCase, *)
(* trim and includes are computed, not assumed.                            *)
(***************************************************************************)
EXTENDS Integers, Sequences, FiniteSets, Bags, TLC

VARIABLES
    gameState,       \* the React state of App
    storage,         \* localStorage[SAVE_KEY]
    enrichInFlight,  \* bag: coordinates of the generateTileContent calls awaited
    puzzleInFlight,  \* bag: the generatePuzzle calls awaited, with their closures
    solveTimers,     \* bag: pending setTimeout(() => onSolve(true)), with their closures
    levelUpTimers,   \* bag: pending level-up log timeouts, by the level they announce
    puzzleCount,     \* generatePuzzle calls made so far
    saveCount,       \* successful writes of the save slot so far
    window,          \* the coordinates of the infinite grid that are tracked
    feedback         \* the feedback state of the PuzzleModal that is mounted

vars == <<gameState, storage, enrichInFlight, puzzleInFlight, solveTimers,
          levelUpTimers, puzzleCount, saveCount, window, feedback>>

\* ------------------------------------------------------------------ bounds
\* Log lengths for the runs that interact with tiles up to distance WalkX:
\* state-changing handlers are followed below ClickLogs entries, log-only
\* ones below ClickNoise.
ClickLogs == 4
ClickNoise == 4
\* Log lengths for the runs in which the backend is bound to answer.
LiveLogs == 3
LiveNoise == 2
\* Puzzle requests, pending resolutions and log length for the runs on one
\* tile whose puzzle is requested and answered more than once.
RepeatPuzzles == 2
RepeatTimers == 2
RepeatLogs == 5
\* The tracked part of the infinite grid: x in 0..MaxX, y = 0.
MaxX == 1
\* The same for the runs that only walk: x in 0..WalkX, y = 0.
WalkX == 2
\* Log entries and enrichments in flight for the runs that only walk.
WalkLogs == 2
WalkEnrich == 1
\* Log lengths for the runs that save and load: state-changing handlers are
\* followed below RestoreLogs entries, log-only ones below RestoreNoise.
RestoreLogs == 4
RestoreNoise == 3
\* Log length for the runs in which a resolution is applied after a load.
StaleLogs == 5
\* Pending resolutions and log length for the runs that reach a level-up.
LevelTimers == 2
LevelLogs == 7
\* Log length for the runs that only submit answers.
AnswerLogs == 3
\* The runs that walk with the whole neighbourhood tracked: the player
\* stays on x in 0..GridX, y = 0, and the log below GridLogs entries.
GridX == 1
GridLogs == 3
\* Puzzle requests and enrichments in flight for the runs that race them.
RacePuzzles == 2
RaceEnrich == 2
RaceLogs == 3
\* Puzzle generation requests issued in one run.
MaxPuzzles == 1
\* Tile enrichment requests in flight at once.
MaxEnrich == 1
\* Pending onSolve(true) timeouts at once.
MaxTimers == 1
\* Successful saves in one run.
MaxSaves == 1
\* Length of the log up to which handlers that change state are followed.
MaxLogs == 7
\* Length of the log up to which saves, and handlers that only write a log
\* entry (an inspection, a rejected interaction, a failed load), are followed.
MaxNoise == 2

\* --------------------------------------------------------------- constants
XP_PER_PUZZLE == 100
XP_PER_LEVEL == 500

\* null and undefined where an object is expected: the object with no property.
Null == [k \in {} |-> k]
Undefined == Null

\* if (obj) ...
Truthy(obj) == DOMAIN obj # {}

\* obj.field used as a condition: false when the property is missing
Flag(obj, field) == field \in DOMAIN obj /\ obj[field] = TRUE

\* A string property that is missing reads as undefined.
UndefinedStr == "undefined"
Str(obj, field) == IF field \in DOMAIN obj THEN obj[field] ELSE UndefinedStr

DATA_WASTELAND == "DATA_WASTELAND"
NEON_FOREST == "NEON_FOREST"
SERVER_CITY == "SERVER_CITY"
QUANTUM_FLUX == "QUANTUM_FLUX"
REALITY_NODE == "REALITY_NODE"

BiomeType == {DATA_WASTELAND, NEON_FOREST, SERVER_CITY, QUANTUM_FLUX, REALITY_NODE}

\* The pending sentinels a new tile is created with.
Scanning == "Scanning..."
Dots == "..."

\* A window of coordinates; the key `${x},${y}` of a tile is the pair.
Window(maxX, maxY) == (0..maxX) \X (0..maxY)

\* ----------------------------------------------------------------- logging
LogEntry(message, type) == [message |-> message, type |-> type]

INITIAL_LOG == LogEntry("System Initialized.", "info")

\* addLog: setGameState(prev => ({...prev, logs: [...prev.logs, newLog]}))
addLogFirst(gs, message, type) ==
    [gs EXCEPT !.logs = <<LogEntry(message, type)>> \o @]

\* addLog's updater: { ...prev, logs: [...prev.logs, newLog] }
addLog(gs, message, type) ==
    [gs EXCEPT !.logs = Append(gs.logs, LogEntry(message, type))]

\* ------------------------------------------------------------ world store
\* Math.random() is drawn in hundredths: r stands for r/100 in [0,1).
BiomeDraws == {10, 50}
PuzzleDraws == {50, 90}

\* Thresholds that take the draw equal to them.
BiomeOfInclusive(rand) ==
    IF rand <= 15 THEN REALITY_NODE
    ELSE IF rand <= 36 THEN QUANTUM_FLUX
    ELSE IF rand <= 57 THEN SERVER_CITY
    ELSE IF rand <= 78 THEN NEON_FOREST
    ELSE DATA_WASTELAND

BiomeOf(rand) ==
    IF rand < 15 THEN REALITY_NODE
    ELSE IF rand < 36 THEN QUANTUM_FLUX
    ELSE IF rand < 57 THEN SERVER_CITY
    ELSE IF rand < 78 THEN NEON_FOREST
    ELSE DATA_WASTELAND

\* A puzzle flag that depends on the second draw alone.
HasPuzzleByDrawOnly(biome, rand2) == rand2 > 70

HasPuzzleOf(biome, rand2) == biome = REALITY_NODE \/ rand2 > 70

NewTile(c, rand, rand2) ==
    [id |-> c, x |-> c[1], y |-> c[2],
     biome |-> BiomeOf(rand),
     description |-> Scanning,
     explored |-> FALSE,
     hasPuzzle |-> HasPuzzleOf(BiomeOf(rand), rand2),
     isSolved |-> FALSE,
     visualFeature |-> Dots]

\* prev.world[id], undefined when the key is missing
TileAt(world, c) == IF c \in DOMAIN world THEN world[c] ELSE Undefined

\* { ...world, [id]: tile }
WithTile(world, c, tile) ==
    [k \in DOMAIN world \cup {c} |-> IF k = c THEN tile ELSE world[k]]

\* A generator that rolls a tile whether or not one is there.
ensureTileRerolled(gs, c, rand, rand2) ==
    [gs EXCEPT !.world = WithTile(gs.world, c, NewTile(c, rand, rand2))]

\* ensureTileExists's updater for one coordinate, given its two draws.
ensureTileExists(gs, c, rand, rand2) ==
    IF Truthy(TileAt(gs.world, c)) THEN gs
    ELSE [gs EXCEPT !.world = WithTile(gs.world, c, NewTile(c, rand, rand2))]

\* A neighbourhood without its diagonals.
AroundCross(p) ==
    {c \in window : \/ c[1] = p[1] /\ c[2] - p[2] \in -1..1
                    \/ c[2] = p[2] /\ c[1] - p[1] \in -1..1}

\* The coordinates of the tracked window within radius 1 of position p.
Around(p) == {c \in window : c[1] - p[1] \in -1..1 /\ c[2] - p[2] \in -1..1}

\* The generation loop: ensureTileExists for every coordinate around the
\* position, each with its own draws.
RECURSIVE EnsureAll(_, _, _)
EnsureAll(gs, todo, draws) ==
    IF todo = {} THEN gs
    ELSE LET c == CHOOSE k \in todo : TRUE
         IN EnsureAll(ensureTileExists(gs, c, draws[c][1], draws[c][2]),
                      todo \ {c}, draws)

\* The draws the loop consumes: none for a coordinate that has a tile.
DrawsFor(gs) ==
    [Around(gs.player.position) \ DOMAIN gs.world -> BiomeDraws \X PuzzleDraws]

\* enrichTileContent up to its await.  `sync` tells whether the updater that
\* reads prev.world[id] into currentTile ran before the test that follows it:
\* React runs an updater at once only when no update is queued, so the read
\* may also see nothing (currentTile stays undefined).
\* The result: the state, and whether generateTileContent was called.
enrichTileContent(gs, c, sync) ==
    LET tile == TileAt(gs.world, c)
        s1 == IF Truthy(tile) /\ Str(tile, "description") # Scanning
              THEN gs ELSE [gs EXCEPT !.isGenerating = TRUE]
        currentTile == IF sync THEN TileAt(s1.world, c) ELSE Undefined
    IN  IF ~Truthy(currentTile) \/ Str(currentTile, "description") # Scanning
        THEN [state |-> [s1 EXCEPT !.isGenerating = FALSE], request |-> FALSE]
        ELSE [state |-> s1, request |-> TRUE]

\* useEffect on gameState.player.position: runs after the first render and
\* after every render in which the position object changed.
tileGenerationEffect(gs, draws, sync) ==
    LET p == gs.player.position
    IN  enrichTileContent(EnsureAll(gs, Around(p), draws), p, sync)

\* The effect as the tail of the action that changed the position to gs's.
PositionEffect(gs) ==
    \E draws \in DrawsFor(gs), sync \in BOOLEAN :
        LET r == tileGenerationEffect(gs, draws, sync)
        IN  /\ gameState' = r.state
            /\ enrichInFlight' = IF r.request
                                 THEN enrichInFlight (+) SetToBag({gs.player.position})
                                 ELSE enrichInFlight

\* ---------------------------------------------------------------- strings
LowerChar(ch) ==
    CASE ch = "K" -> "k" [] ch = "E" -> "e" [] ch = "Y" -> "y"
      [] ch = "C" -> "c" [] ch = "T" -> "t" [] ch = "H" -> "h"
      [] OTHER -> ch

toLowerCase(s) == [i \in 1..Len(s) |-> LowerChar(s[i])]

IsSpace(ch) == ch = " "

RECURSIVE trimStart(_)
trimStart(s) ==
    IF s # <<>> /\ IsSpace(Head(s)) THEN trimStart(Tail(s)) ELSE s

RECURSIVE trimEnd(_)
trimEnd(s) ==
    IF s # <<>> /\ IsSpace(s[Len(s)]) THEN trimEnd(SubSeq(s, 1, Len(s) - 1)) ELSE s

trim(s) == trimEnd(trimStart(s))

includes(s, t) ==
    \E i \in 1..(Len(s) + 1) :
        i + Len(t) - 1 <= Len(s) /\ SubSeq(s, i, i + Len(t) - 1) = t

\* --------------------------------------------------------- content provider
\* What the backend can answer to a tile description request: a JSON object
\* with both fields, an object without them, or nothing usable (the call
\* throws, the text is empty or does not parse).
TileResponses ==
    {[kind |-> "json", description |-> "Rusted antenna hums.", visualFeature |-> "Antenna"],
     [kind |-> "json"],
     [kind |-> "failure"]}

\* generateTileContent: the parsed object as it is, or the fallback pair.
generateTileContent(resp) ==
    IF resp.kind = "failure"
    THEN [description |-> "Static interference blocks your sensors.",
          visualFeature |-> "Glitch"]
    ELSE [f \in DOMAIN resp \ {"kind"} |-> resp[f]]

\* What the backend can answer to a puzzle request.
PuzzleResponses ==
    {[kind |-> "json", question |-> "Q", type |-> "riddle",
      answer |-> <<"K", "e", "y">>, options |-> <<>>],
     [kind |-> "json"],
     [kind |-> "failure"]}

RealityResponses ==
    {[kind |-> "json", question |-> "Q", correctAnswer |-> <<"C">>,
      wrongOptions |-> << <<"A">> >>],
     [kind |-> "json"],
     [kind |-> "failure"]}

\* new Date().getFullYear().toString()
CurrentYear == <<"2", "0", "2", "6">>

\* The properties of data that are there, renamed by the object literal.
Pick(data, names) == [f \in {n \in DOMAIN names : names[n] \in DOMAIN data} |-> data[names[f]]]

\* An arrangement that repeats the element drawn first.
RepeatedOption(data, perm) ==
    LET wrong == IF "wrongOptions" \in DOMAIN data THEN data.wrongOptions ELSE <<>>
        all == IF "correctAnswer" \in DOMAIN data
               THEN Append(wrong, data.correctAnswer)
               ELSE Append(wrong, <<"undefined">>)
    IN  [i \in 1..Len(all) |-> all[perm[1]]]

\* [...(data.wrongOptions || []), data.correctAnswer].sort(() => Math.random() - 0.5):
\* some arrangement of the same elements; perm is the arrangement drawn.
ShuffledOptions(data, perm) ==
    LET wrong == IF "wrongOptions" \in DOMAIN data THEN data.wrongOptions ELSE <<>>
        all == IF "correctAnswer" \in DOMAIN data
               THEN Append(wrong, data.correctAnswer)
               ELSE Append(wrong, <<"undefined">>)
    IN  [i \in 1..Len(all) |-> all[perm[i]]]

Perms(n) == {f \in [1..n -> 1..n] : \A i, j \in 1..n : f[i] = f[j] => i = j}

\* generateRealityPuzzle; uuid is the fresh id.
generateRealityPuzzle(resp, uuid, perm) ==
    IF resp.kind = "failure"
    THEN [id |-> uuid,
          question |-> "The Reality Link is unstable. What year is it currently?",
          type |-> "reality_check",
          answer |-> CurrentYear,
          solved |-> FALSE]
    ELSE [id |-> uuid,
          question |-> IF "question" \in DOMAIN resp
                       THEN "[REALITY CHECK] Q" ELSE "[REALITY CHECK] undefined",
          type |-> "reality_check",
          options |-> ShuffledOptions(resp, perm),
          solved |-> FALSE,
          groundingUrls |-> <<>>]
         @@ Pick(resp, [answer |-> "correctAnswer"])

\* A generator with one fallback for every biome.
generatePuzzleOneFallback(biome, resp, uuid, perm) ==
    IF resp.kind = "failure"
    THEN [id |-> uuid,
          question |-> "404 Puzzle Not Found. What is 2 + 2?",
          type |-> "logic",
          answer |-> <<"4">>,
          solved |-> FALSE]
    ELSE IF biome = REALITY_NODE THEN generateRealityPuzzle(resp, uuid, perm)
    ELSE [id |-> uuid, solved |-> FALSE]
         @@ Pick(resp, [question |-> "question", type |-> "type",
                        options |-> "options", answer |-> "answer"])

\* generatePuzzle(biome, difficulty); the difficulty only enters the prompt.
generatePuzzle(biome, resp, uuid, perm) ==
    IF biome = REALITY_NODE THEN generateRealityPuzzle(resp, uuid, perm)
    ELSE IF resp.kind = "failure"
    THEN [id |-> uuid,
          question |-> "404 Puzzle Not Found. What is 2 + 2?",
          type |-> "logic",
          answer |-> <<"4">>,
          solved |-> FALSE]
    ELSE [id |-> uuid, solved |-> FALSE]
         @@ Pick(resp, [question |-> "question", type |-> "type",
                        options |-> "options", answer |-> "answer"])

ResponsesFor(biome) == IF biome = REALITY_NODE THEN RealityResponses ELSE PuzzleResponses

NumOptions(resp) ==
    1 + (IF "wrongOptions" \in DOMAIN resp THEN Len(resp.wrongOptions) ELSE 0)

\* ------------------------------------------------------------- persistence
\* localStorage[SAVE_KEY]: nothing, or a text.  A text is the JSON of an
\* object, or something JSON.parse rejects.
NoItem == [kind |-> "absent"]
Garbage == [kind |-> "text", parses |-> FALSE]

\* JSON.stringify: the object's own properties, as text.
JSONstringify(obj) == [kind |-> "text", parses |-> TRUE, json |-> obj]

\* JSON.parse of a text that parses.
JSONparse(text) == text.json

\* PuzzleModal's feedback state, before any submission.
NoFeedback == "null"

\* PuzzleModal is rendered while activePuzzle is set: its state lives as long
\* as a puzzle stays set, and a modal that is mounted anew starts without
\* feedback.
ModalAfter(gs, fb) == IF Truthy(gs.activePuzzle) THEN fb ELSE NoFeedback

\* -------------------------------------------------------------------- Init
InitialGameState ==
    [player |-> [position |-> <<0, 0>>, inventory |-> <<>>, xp |-> 0, level |-> 1],
     world |-> Null,
     logs |-> <<INITIAL_LOG>>,
     isGenerating |-> FALSE,
     activePuzzle |-> Null]

\* A save of an earlier session: the player stands on an unsolved reality
\* node with 400 XP, the tile next to it is solved, nothing was enriched.
\* (In that session a resolution submitted at <<1, 0>> was applied after a
\* load of the save made at its start, and the game was saved again.)
PriorSave ==
    JSONstringify(
        [player |-> [position |-> <<0, 0>>, inventory |-> <<>>, xp |-> 400, level |-> 1],
         world |-> (<<0, 0>> :> NewTile(<<0, 0>>, 10, 50))
                   @@ (<<1, 0>> :> [NewTile(<<1, 0>>, 50, 90) EXCEPT !.isSolved = TRUE]),
         logs |-> <<INITIAL_LOG,
                    LogEntry("SYSTEM RESTORED FROM BACKUP. [STATE LOADED]", "success"),
                    LogEntry("Logic Gate Bypassed.", "success")>>,
         isGenerating |-> FALSE,
         activePuzzle |-> Null])

\* Saves that parse but lack one of the two fields loadGame tests.
NoPlayerSave ==
    JSONstringify([k \in DOMAIN InitialGameState \ {"player"} |-> InitialGameState[k]])
NoWorldSave ==
    JSONstringify([k \in DOMAIN InitialGameState \ {"world"} |-> InitialGameState[k]])

\* What an earlier session can have left under SAVE_KEY.
InitialStorage == {NoItem, PriorSave}

\* The state after the first render and its effects, given what is tracked
\* and what the save slot holds.
Mounted(tracked, items) ==
    /\ window = tracked
    /\ \E draws \in DrawsFor(InitialGameState), sync \in BOOLEAN :
           LET r == tileGenerationEffect(InitialGameState, draws, sync)
           IN  /\ gameState = r.state
               /\ enrichInFlight = IF r.request THEN SetToBag({<<0, 0>>}) ELSE EmptyBag
    /\ storage \in items
    /\ puzzleInFlight = EmptyBag
    /\ solveTimers = EmptyBag
    /\ levelUpTimers = EmptyBag
    /\ puzzleCount = 0
    /\ saveCount = 0
    /\ feedback = NoFeedback

Init == Mounted(Window(MaxX, 0), InitialStorage)

\* ----------------------------------------------------------------- actions
\* movePlayer(dx, dy), from an arrow key.
movePlayer(dx, dy) ==
    IF Truthy(gameState.activePuzzle)
    THEN UNCHANGED vars
    ELSE LET pos == gameState.player.position
             new == <<pos[1] + dx, pos[2] + dy>>
         IN  /\ new \in window
             /\ PositionEffect([gameState EXCEPT !.player.position = new])
             /\ feedback' = ModalAfter(gameState', feedback)
             /\ UNCHANGED <<storage, puzzleInFlight, solveTimers, levelUpTimers,
                            puzzleCount, saveCount, window>>

Abs(n) == IF n < 0 THEN -n ELSE n

\* An interaction whose range reaches two steps.
handleTileClickFar(c) ==
    LET tile == TileAt(gameState.world, c)
        pos == gameState.player.position
        dist == Abs(c[1] - pos[1]) + Abs(c[2] - pos[2])
    IN  /\ Truthy(tile)
        /\ c = pos \/ ~Truthy(gameState.activePuzzle)
        /\ IF dist > 2
           THEN /\ gameState' = addLog(gameState, "Target out of range.", "warning")
                /\ UNCHANGED <<puzzleInFlight, puzzleCount>>
           ELSE IF Flag(tile, "hasPuzzle") /\ ~Flag(tile, "isSolved")
           THEN IF dist = 0
                THEN /\ gameState' =
                            [addLog(gameState, "Interfacing with node logic...", "info")
                                EXCEPT !.isGenerating = TRUE]
                     /\ puzzleInFlight' = puzzleInFlight (+)
                            SetToBag({[origin |-> c, biome |-> tile.biome,
                                       uuid |-> puzzleCount + 1]})
                     /\ puzzleCount' = puzzleCount + 1
                ELSE /\ gameState' = addLog(gameState, "Move closer to interface.", "warning")
                     /\ UNCHANGED <<puzzleInFlight, puzzleCount>>
           ELSE /\ gameState' = addLog(gameState, "Inspecting", "info")
                /\ UNCHANGED <<puzzleInFlight, puzzleCount>>
        /\ feedback' = ModalAfter(gameState', feedback)
        /\ UNCHANGED <<storage, enrichInFlight, solveTimers, levelUpTimers, saveCount,
                     window>>

\* An interaction that interfaces with a puzzle tile from the next tile too.
handleTileClickAdjacent(c) ==
    LET tile == TileAt(gameState.world, c)
        pos == gameState.player.position
        dist == Abs(c[1] - pos[1]) + Abs(c[2] - pos[2])
    IN  /\ Truthy(tile)
        /\ c = pos \/ ~Truthy(gameState.activePuzzle)
        /\ IF dist > 1
           THEN /\ gameState' = addLog(gameState, "Target out of range.", "warning")
                /\ UNCHANGED <<puzzleInFlight, puzzleCount>>
           ELSE IF Flag(tile, "hasPuzzle") /\ ~Flag(tile, "isSolved")
           THEN IF dist <= 1
                THEN /\ gameState' =
                            [addLog(gameState, "Interfacing with node logic...", "info")
                                EXCEPT !.isGenerating = TRUE]
                     /\ puzzleInFlight' = puzzleInFlight (+)
                            SetToBag({[origin |-> c, biome |-> tile.biome,
                                       uuid |-> puzzleCount + 1]})
                     /\ puzzleCount' = puzzleCount + 1
                ELSE /\ gameState' = addLog(gameState, "Move closer to interface.", "warning")
                     /\ UNCHANGED <<puzzleInFlight, puzzleCount>>
           ELSE /\ gameState' = addLog(gameState, "Inspecting", "info")
                /\ UNCHANGED <<puzzleInFlight, puzzleCount>>
        /\ feedback' = ModalAfter(gameState', feedback)
        /\ UNCHANGED <<storage, enrichInFlight, solveTimers, levelUpTimers, saveCount,
                     window>>

\* handleTileClick(x, y) up to its await: a click on a tile of the map, or
\* Enter for the player's own tile.  The map only offers tiles that exist,
\* and the puzzle modal covers it while a puzzle is open.
handleTileClick(c) ==
    LET tile == TileAt(gameState.world, c)
        pos == gameState.player.position
        dist == Abs(c[1] - pos[1]) + Abs(c[2] - pos[2])
    IN  /\ Truthy(tile)
        /\ c = pos \/ ~Truthy(gameState.activePuzzle)
        /\ IF dist > 1
           THEN /\ gameState' = addLog(gameState, "Target out of range.", "warning")
                /\ UNCHANGED <<puzzleInFlight, puzzleCount>>
           ELSE IF Flag(tile, "hasPuzzle") /\ ~Flag(tile, "isSolved")
           THEN IF dist = 0
                THEN /\ gameState' =
                            [addLog(gameState, "Interfacing with node logic...", "info")
                                EXCEPT !.isGenerating = TRUE]
                     /\ puzzleInFlight' = puzzleInFlight (+)
                            SetToBag({[origin |-> c, biome |-> tile.biome,
                                       uuid |-> puzzleCount + 1]})
                     /\ puzzleCount' = puzzleCount + 1
                ELSE /\ gameState' = addLog(gameState, "Move closer to interface.", "warning")
                     /\ UNCHANGED <<puzzleInFlight, puzzleCount>>
           ELSE /\ gameState' = addLog(gameState, "Inspecting", "info")
                /\ UNCHANGED <<puzzleInFlight, puzzleCount>>
        /\ feedback' = ModalAfter(gameState', feedback)
        /\ UNCHANGED <<storage, enrichInFlight, solveTimers, levelUpTimers, saveCount,
                     window>>

\* A continuation that attaches the puzzle and leaves isGenerating as it is.
puzzleGeneratedBusy(req, resp, perm) ==
    LET puzzle == generatePuzzle(req.biome, resp, req.uuid, perm)
                  @@ [origin |-> req.origin]
    IN  /\ gameState' = [gameState EXCEPT !.activePuzzle = puzzle]
        /\ puzzleInFlight' = puzzleInFlight (-) SetToBag({req})
        /\ feedback' = ModalAfter(gameState', feedback)
        /\ UNCHANGED <<storage, enrichInFlight, solveTimers, levelUpTimers, puzzleCount,
                   saveCount, window>>

\* handleTileClick after its await: generatePuzzle resolved.  The puzzle
\* carries, as `origin`, the x and y the handler was called with; the
\* program's Puzzle has no such property.
puzzleGenerated(req, resp, perm) ==
    LET puzzle == generatePuzzle(req.biome, resp, req.uuid, perm)
                  @@ [origin |-> req.origin]
    IN  /\ gameState' = [gameState EXCEPT !.activePuzzle = puzzle,
                                          !.isGenerating = FALSE]
        /\ puzzleInFlight' = puzzleInFlight (-) SetToBag({req})
        /\ feedback' = ModalAfter(gameState', feedback)
        /\ UNCHANGED <<storage, enrichInFlight, solveTimers, levelUpTimers, puzzleCount,
                   saveCount, window>>

PuzzleGenerated ==
    \E req \in BagToSet(puzzleInFlight) :
        \E resp \in ResponsesFor(req.biome) :
            \E perm \in Perms(NumOptions(resp)) :
                puzzleGenerated(req, resp, perm)

\* A completion that writes the two content fields alone, without the spread
\* of the tile that is there.
enrichmentResolvedNoSpread(c, resp) ==
    LET content == generateTileContent(resp)
        written == [description |-> Str(content, "description"),
                    visualFeature |-> Str(content, "visualFeature")]
    IN  /\ gameState' =
               addLog([gameState EXCEPT !.isGenerating = FALSE,
                                        !.world = WithTile(@, c, written)],
                      "Sector", "info")
        /\ enrichInFlight' = enrichInFlight (-) SetToBag({c})
        /\ feedback' = ModalAfter(gameState', feedback)
        /\ UNCHANGED <<storage, puzzleInFlight, solveTimers, levelUpTimers, puzzleCount,
                   saveCount, window>>

\* enrichTileContent after its await, for the request made at coordinate c.
enrichmentResolved(c, resp) ==
    LET content == generateTileContent(resp)
        written == [description |-> Str(content, "description"),
                    visualFeature |-> Str(content, "visualFeature")]
                   @@ TileAt(gameState.world, c)
    IN  /\ gameState' =
               addLog([gameState EXCEPT !.isGenerating = FALSE,
                                        !.world = WithTile(@, c, written)],
                      "Sector", "info")
        /\ enrichInFlight' = enrichInFlight (-) SetToBag({c})
        /\ feedback' = ModalAfter(gameState', feedback)
        /\ UNCHANGED <<storage, puzzleInFlight, solveTimers, levelUpTimers, puzzleCount,
                   saveCount, window>>

EnrichmentResolved ==
    \E c \in BagToSet(enrichInFlight) : \E resp \in TileResponses :
        enrichmentResolved(c, resp)

\* What the player can have typed or picked when submitting.
Submissions ==
    {<<"t", "h", "e", " ", "4">>, <<"5">>, <<" ", "K", "E", "Y", " ">>, <<"C">>,
     CurrentYear}

\* A test without the substring rule.
isCorrectExact(answer, puzzleAnswer) ==
    trim(toLowerCase(answer)) = trim(toLowerCase(puzzleAnswer))

\* The test of PuzzleModal.handleSubmit.
isCorrect(answer, puzzleAnswer) ==
    LET normalizedInput == trim(toLowerCase(answer))
        normalizedCorrect == trim(toLowerCase(puzzleAnswer))
    IN  normalizedInput = normalizedCorrect \/ includes(normalizedInput, normalizedCorrect)

\* A submission whose failure closes the puzzle.
handleSubmitOnce(answer) ==
    /\ Truthy(gameState.activePuzzle)
    /\ "answer" \in DOMAIN gameState.activePuzzle
    /\ IF isCorrect(answer, gameState.activePuzzle.answer)
       THEN /\ solveTimers' = solveTimers (+)
                 SetToBag({[position |-> gameState.player.position,
                            xp |-> gameState.player.xp,
                            level |-> gameState.player.level,
                            activePuzzle |-> gameState.activePuzzle]})
            /\ UNCHANGED gameState
       ELSE /\ UNCHANGED solveTimers
            /\ gameState' = [gameState EXCEPT !.activePuzzle = Null]
    /\ feedback' = IF isCorrect(answer, gameState.activePuzzle.answer)
                   THEN "CORRECT" ELSE "INCORRECT"
    /\ UNCHANGED <<storage, enrichInFlight, puzzleInFlight, levelUpTimers,
                   puzzleCount, saveCount, window>>

\* PuzzleModal.handleSubmit with `answer` typed.  A correct answer schedules
\* onSolve(true), the handlePuzzleSolve of the render the modal was drawn in,
\* which keeps that render's gameState.  Without an answer property the
\* handler throws before it does anything.
handleSubmit(answer) ==
    /\ Truthy(gameState.activePuzzle)
    /\ "answer" \in DOMAIN gameState.activePuzzle
    /\ IF isCorrect(answer, gameState.activePuzzle.answer)
       THEN solveTimers' = solveTimers (+)
              SetToBag({[position |-> gameState.player.position,
                         xp |-> gameState.player.xp,
                         level |-> gameState.player.level,
                         activePuzzle |-> gameState.activePuzzle]})
       ELSE UNCHANGED solveTimers
    /\ feedback' = IF isCorrect(answer, gameState.activePuzzle.answer)
                   THEN "CORRECT" ELSE "INCORRECT"
    /\ UNCHANGED <<gameState, storage, enrichInFlight, puzzleInFlight, levelUpTimers,
                   puzzleCount, saveCount, window>>

HandleSubmit == \E answer \in Submissions : handleSubmit(answer)

\* A level that starts at zero.
LevelFromZero(newXp) == newXp \div XP_PER_LEVEL

\* Math.floor(newXp / XP_PER_LEVEL) + 1
LevelFor(newXp) == (newXp \div XP_PER_LEVEL) + 1

\* handlePuzzleSolve(success) of the render whose gameState is `snap`,
\* applied to the current state `prev`.
handlePuzzleSolve(snap, prev, success) ==
    IF success /\ Truthy(snap.activePuzzle)
    THEN LET id == snap.position
             newXp == snap.xp + XP_PER_PUZZLE
             newLevel == LevelFor(newXp)
         IN  addLog([prev EXCEPT !.activePuzzle = Null,
                                 !.player.xp = newXp,
                                 !.player.level = newLevel,
                                 !.world = WithTile(@, id,
                                     [isSolved |-> TRUE] @@ TileAt(prev.world, id))],
                    "Logic Gate Bypassed.", "success")
    ELSE addLog([prev EXCEPT !.activePuzzle = Null], "Interface closed.", "warning")

\* The timeout of a correct submission fires: onSolve(true).
solveTimerFires(snap) ==
    LET newLevel == LevelFor(snap.xp + XP_PER_PUZZLE)
    IN  /\ gameState' = handlePuzzleSolve(snap, gameState, TRUE)
        /\ solveTimers' = solveTimers (-) SetToBag({snap})
        /\ levelUpTimers' = IF newLevel > snap.level
                            THEN levelUpTimers (+) SetToBag({newLevel})
                            ELSE levelUpTimers
        /\ feedback' = ModalAfter(gameState', feedback)
        /\ UNCHANGED <<storage, enrichInFlight, puzzleInFlight, puzzleCount, saveCount,
                     window>>

SolveTimerFires == \E snap \in BagToSet(solveTimers) : solveTimerFires(snap)

\* The 600 ms timeout of a level-up fires.
levelUpTimerFires(newLevel) ==
    /\ gameState' = addLog(gameState, "SYSTEM UPGRADE", "success")
    /\ levelUpTimers' = levelUpTimers (-) SetToBag({newLevel})
    /\ feedback' = ModalAfter(gameState', feedback)
    /\ UNCHANGED <<storage, enrichInFlight, puzzleInFlight, solveTimers, puzzleCount,
                   saveCount, window>>

LevelUpTimerFires == \E l \in BagToSet(levelUpTimers) : levelUpTimerFires(l)

\* The modal's close button.
onClose ==
    /\ Truthy(gameState.activePuzzle)
    /\ gameState' = [gameState EXCEPT !.activePuzzle = Null]
    /\ feedback' = ModalAfter(gameState', feedback)
    /\ UNCHANGED <<storage, enrichInFlight, puzzleInFlight, solveTimers, levelUpTimers,
                   puzzleCount, saveCount, window>>

\* saveGame; setItem may throw (quota, storage disabled).
saveGame(writes) ==
    /\ IF writes
       THEN /\ storage' = JSONstringify([gameState EXCEPT !.isGenerating = FALSE])
            /\ saveCount' = saveCount + 1
            /\ gameState' = addLog(gameState, "SYSTEM BACKUP COMPLETE. [STATE SAVED]", "success")
       ELSE /\ UNCHANGED <<storage, saveCount>>
            /\ gameState' = addLog(gameState, "BACKUP FAILED: WRITE ERROR.", "error")
    /\ feedback' = ModalAfter(gameState', feedback)
    /\ UNCHANGED <<enrichInFlight, puzzleInFlight, solveTimers, levelUpTimers, puzzleCount,
                   window>>

SaveGame == \E writes \in BOOLEAN : saveGame(writes)

\* A load that restores the save with its puzzle closed.
loadGameClosing ==
    /\ IF storage.kind = "absent"
       THEN /\ gameState' = addLog(gameState, "NO BACKUP FOUND IN LOCAL STORAGE.", "warning")
            /\ UNCHANGED enrichInFlight
       ELSE IF ~(storage.kind = "text" /\ storage.parses
                 /\ "player" \in DOMAIN JSONparse(storage)
                 /\ "world" \in DOMAIN JSONparse(storage))
       THEN /\ gameState' = addLog(gameState, "RESTORE FAILED: CORRUPT DATA.", "error")
            /\ UNCHANGED enrichInFlight
       ELSE PositionEffect(addLog([JSONparse(storage) EXCEPT !.activePuzzle = Null],
                                  "SYSTEM RESTORED FROM BACKUP. [STATE LOADED]", "success"))
    /\ feedback' = ModalAfter(gameState', feedback)
    /\ UNCHANGED <<storage, puzzleInFlight, solveTimers, levelUpTimers, puzzleCount,
                   saveCount, window>>

\* A load whose failure also closes the puzzle and clears the busy flag.
loadGameResetting ==
    /\ IF storage.kind = "absent"
       THEN /\ gameState' = addLog([gameState EXCEPT !.activePuzzle = Null,
                                                     !.isGenerating = FALSE],
                                   "NO BACKUP FOUND IN LOCAL STORAGE.", "warning")
            /\ UNCHANGED enrichInFlight
       ELSE IF ~(storage.kind = "text" /\ storage.parses
                 /\ "player" \in DOMAIN JSONparse(storage)
                 /\ "world" \in DOMAIN JSONparse(storage))
       THEN /\ gameState' = addLog([gameState EXCEPT !.activePuzzle = Null,
                                                     !.isGenerating = FALSE],
                                   "RESTORE FAILED: CORRUPT DATA.", "error")
            /\ UNCHANGED enrichInFlight
       ELSE PositionEffect(addLog(JSONparse(storage),
                                  "SYSTEM RESTORED FROM BACKUP. [STATE LOADED]", "success"))
    /\ feedback' = ModalAfter(gameState', feedback)
    /\ UNCHANGED <<storage, puzzleInFlight, solveTimers, levelUpTimers, puzzleCount,
                   saveCount, window>>

\* loadGame.  The loaded state has a new position object, so the position
\* effect runs after the render.
Restorable(item) ==
    /\ item.kind = "text"
    /\ item.parses
    /\ "player" \in DOMAIN JSONparse(item)
    /\ "world" \in DOMAIN JSONparse(item)

loadGame ==
    /\ IF storage.kind = "absent"
       THEN /\ gameState' = addLog(gameState, "NO BACKUP FOUND IN LOCAL STORAGE.", "warning")
            /\ UNCHANGED enrichInFlight
       ELSE IF ~Restorable(storage)
       THEN /\ gameState' = addLog(gameState, "RESTORE FAILED: CORRUPT DATA.", "error")
            /\ UNCHANGED enrichInFlight
       ELSE PositionEffect(addLog(JSONparse(storage),
                                  "SYSTEM RESTORED FROM BACKUP. [STATE LOADED]", "success"))
    /\ feedback' = ModalAfter(gameState', feedback)
    /\ UNCHANGED <<storage, puzzleInFlight, solveTimers, levelUpTimers, puzzleCount,
                   saveCount, window>>

\* ------------------------------------------------------- next-state relation
\* The handlers, each followed only within the bounds given: b names the
\* number of puzzle requests, pending timers, enrichments in flight and saves,
\* and the log lengths up to which handlers are followed.
LogsBelow(n) == Len(gameState.logs) < n

Move(b) ==
    /\ \E d \in {<<0, -1>>, <<0, 1>>, <<-1, 0>>, <<1, 0>>} : movePlayer(d[1], d[2])
    /\ BagCardinality(enrichInFlight') <= b.enrich

Click(b) ==
    \E c \in window :
        /\ handleTileClick(c)
        /\ puzzleCount' <= b.puzzles
        /\ LogsBelow(IF puzzleCount' # puzzleCount THEN b.logs ELSE b.noise)

Generated == PuzzleGenerated

Enriched(b) == LogsBelow(b.logs) /\ EnrichmentResolved

Submit(b) == HandleSubmit /\ BagCardinality(solveTimers') <= b.timers

Solved(b) ==
    /\ LogsBelow(b.logs)
    /\ SolveTimerFires
    /\ BagCardinality(levelUpTimers') <= b.timers

LevelUp(b) == LogsBelow(b.logs) /\ LevelUpTimerFires

Close == onClose

Save(b) ==
    /\ SaveGame
    /\ saveCount' <= b.saves
    /\ LogsBelow(b.noise)

Load(b) ==
    /\ LogsBelow(IF Restorable(storage) THEN b.logs ELSE b.noise)
    /\ loadGame
    /\ BagCardinality(enrichInFlight') <= b.enrich

\* The whole session.
Bounds ==
    [puzzles |-> MaxPuzzles, timers |-> MaxTimers, enrich |-> MaxEnrich,
     saves |-> MaxSaves, logs |-> MaxLogs, noise |-> MaxNoise]

Next ==
    \/ Move(Bounds)
    \/ Click(Bounds)
    \/ Generated
    \/ Enriched(Bounds)
    \/ Submit(Bounds)
    \/ Solved(Bounds)
    \/ LevelUp(Bounds)
    \/ Close
    \/ Save(Bounds)
    \/ Load(Bounds)

Spec == Init /\ [][Next]_vars

\* Two puzzle requests and two enrichments at once, without persistence.
RaceBounds ==
    [puzzles |-> RacePuzzles, timers |-> MaxTimers, enrich |-> RaceEnrich,
     saves |-> 0, logs |-> RaceLogs, noise |-> 1]

RaceInit == Mounted(Window(MaxX, 0), {NoItem})

RaceNext ==
    \/ Move(RaceBounds)
    \/ Click(RaceBounds)
    \/ Generated
    \/ Enriched(RaceBounds)
    \/ Submit(RaceBounds)
    \/ Solved(RaceBounds)
    \/ Close

RaceSpec == RaceInit /\ [][RaceNext]_vars

\* Walking a larger window, with enrichment.
WalkBounds ==
    [puzzles |-> 0, timers |-> 0, enrich |-> WalkEnrich,
     saves |-> 0, logs |-> WalkLogs, noise |-> 1]

WalkInit == Mounted(Window(WalkX, 0), {NoItem})

WalkNext ==
    \/ Move(WalkBounds)
    \/ Enriched(WalkBounds)

WalkSpec == WalkInit /\ [][WalkNext]_vars

\* Saving and loading, over every kind of item the save slot can hold.
RestoreBounds ==
    [puzzles |-> 1, timers |-> 0, enrich |-> 1,
     saves |-> 1, logs |-> RestoreLogs, noise |-> RestoreNoise]

RestoreItems == {NoItem, Garbage, NoPlayerSave, NoWorldSave, PriorSave}

RestoreInit == Mounted(Window(MaxX, 0), RestoreItems)

RestoreNext ==
    \/ Move(RestoreBounds)
    \/ Click(RestoreBounds)
    \/ Generated
    \/ Enriched(RestoreBounds)
    \/ Close
    \/ Save(RestoreBounds)
    \/ Load(RestoreBounds)

RestoreSpec == RestoreInit /\ [][RestoreNext]_vars

\* A resolution submitted away from the start and applied after a load.
StaleBounds ==
    [puzzles |-> 1, timers |-> 1, enrich |-> 1,
     saves |-> 0, logs |-> StaleLogs, noise |-> 1]

StaleInit == Mounted(Window(WalkX, 0), {PriorSave})

StaleNext ==
    \/ Move(StaleBounds)
    \/ Click(StaleBounds)
    \/ Generated
    \/ Submit(StaleBounds)
    \/ Solved(StaleBounds)
    \/ Load(StaleBounds)

StaleSpec == StaleInit /\ [][StaleNext]_vars

\* Resolutions from a session restored just below a level threshold, the
\* answer submitted more than once.
LevelBounds ==
    [puzzles |-> 1, timers |-> LevelTimers, enrich |-> 1,
     saves |-> 0, logs |-> LevelLogs, noise |-> 1]

LevelInit == Mounted(Window(MaxX, 0), {PriorSave})

LevelNext ==
    \/ Click(LevelBounds)
    \/ Generated
    \/ Submit(LevelBounds)
    \/ Solved(LevelBounds)
    \/ LevelUp(LevelBounds)
    \/ Close
    \/ Load(LevelBounds)

LevelSpec == LevelInit /\ [][LevelNext]_vars

\* The answer test alone: a puzzle is open from the start, its answer drawn
\* from StoredAnswers, and the player types one of TypedAnswers.
StoredAnswers == {<<"4">>, <<" ", "K", "e", "y", " ">>, <<"c">>, <<>>}

TypedAnswers ==
    {<<"4">>,
     <<"t", "h", "e", " ", "a", "n", "s", "w", "e", "r", " ", "i", "s", " ", "4">>,
     <<"5">>,
     <<" ", "T", "H", "E", " ", "K", "E", "Y">>,
     <<"k", " ", "e", "y">>,
     <<" ", "C", " ">>,
     <<>>}

AnswerBounds ==
    [puzzles |-> 0, timers |-> 1, enrich |-> 1,
     saves |-> 0, logs |-> AnswerLogs, noise |-> 1]

AnswerInit ==
    /\ window = Window(0, 0)
    /\ \E a \in StoredAnswers, draws \in DrawsFor(InitialGameState), sync \in BOOLEAN :
           LET r == tileGenerationEffect(InitialGameState, draws, sync)
           IN  /\ gameState =
                      [r.state EXCEPT !.activePuzzle =
                          [id |-> 1, question |-> "Q", type |-> "riddle",
                           answer |-> a, options |-> <<>>, solved |-> FALSE,
                           origin |-> <<0, 0>>]]
               /\ enrichInFlight = IF r.request THEN SetToBag({<<0, 0>>}) ELSE EmptyBag
    /\ storage = NoItem
    /\ puzzleInFlight = EmptyBag
    /\ solveTimers = EmptyBag
    /\ levelUpTimers = EmptyBag
    /\ puzzleCount = 1
    /\ saveCount = 0
    /\ feedback = NoFeedback

AnswerSubmit ==
    /\ \E answer \in TypedAnswers : handleSubmit(answer)
    /\ BagCardinality(solveTimers') <= AnswerBounds.timers

AnswerNext ==
    \/ AnswerSubmit
    \/ Solved(AnswerBounds)
    \/ Enriched(AnswerBounds)
    \/ Close

AnswerSpec == AnswerInit /\ [][AnswerNext]_vars

\* Walking with every coordinate within radius 1 of the positions tracked.
\* The first render draws the same pair for its nine tiles.
GridBounds ==
    [puzzles |-> 0, timers |-> 0, enrich |-> 1,
     saves |-> 0, logs |-> GridLogs, noise |-> 1]

GridReach == (0..GridX) \X {0}

GridWindow == ((0 - 1)..(GridX + 1)) \X ((0 - 1)..1)

GridInit ==
    /\ window = GridWindow
    /\ \E k \in BiomeDraws \X PuzzleDraws, sync \in BOOLEAN :
           LET draws == [c \in Around(<<0, 0>>) |-> k]
               r == tileGenerationEffect(InitialGameState, draws, sync)
           IN  /\ gameState = r.state
               /\ enrichInFlight = IF r.request THEN SetToBag({<<0, 0>>}) ELSE EmptyBag
    /\ storage = NoItem
    /\ puzzleInFlight = EmptyBag
    /\ solveTimers = EmptyBag
    /\ levelUpTimers = EmptyBag
    /\ puzzleCount = 0
    /\ saveCount = 0
    /\ feedback = NoFeedback

GridMove ==
    /\ Move(GridBounds)
    /\ gameState'.player.position \in GridReach

GridNext ==
    \/ GridMove
    \/ Enriched(GridBounds)

GridSpec == GridInit /\ [][GridNext]_vars

\* Interaction with the tiles of a row at distance 0, 1 and 2, the puzzle
\* generation it starts, and the resolution of the puzzle.
ClickBounds ==
    [puzzles |-> 1, timers |-> 1, enrich |-> 1,
     saves |-> 0, logs |-> ClickLogs, noise |-> ClickNoise]

\* What the search-grounded backend can answer: with two wrong options, with
\* one, with none, with no field at all, or nothing usable.
GroundedResponses ==
    RealityResponses \cup
    {[kind |-> "json", question |-> "Q", correctAnswer |-> <<"C">>,
      wrongOptions |-> << <<"A">>, <<"B">> >>],
     [kind |-> "json", question |-> "Q", correctAnswer |-> <<"C">>]}

ClickInit == Mounted(Window(WalkX, 0), {NoItem})

ClickGenerated ==
    \E req \in BagToSet(puzzleInFlight) :
        \E resp \in IF req.biome = REALITY_NODE THEN GroundedResponses ELSE PuzzleResponses :
            \E perm \in Perms(NumOptions(resp)) :
                puzzleGenerated(req, resp, perm)

\* The player types the stored answer as it is.
ClickSubmit ==
    /\ Truthy(gameState.activePuzzle)
    /\ "answer" \in DOMAIN gameState.activePuzzle
    /\ handleSubmit(gameState.activePuzzle.answer)
    /\ BagCardinality(solveTimers') <= ClickBounds.timers

ClickNext ==
    \/ Move(ClickBounds)
    \/ Click(ClickBounds)
    \/ ClickGenerated
    \/ ClickSubmit
    \/ Solved(ClickBounds)

ClickSpec == ClickInit /\ [][ClickNext]_vars

\* The session with a backend that answers every request in the end, with
\* content, with something else or with a failure: a promise that is awaited
\* settles, so each continuation that stays enabled runs.  The player is
\* free to act or not.
LiveBounds ==
    [puzzles |-> 1, timers |-> 0, enrich |-> 1,
     saves |-> 0, logs |-> LiveLogs, noise |-> LiveNoise]

LiveInit == Mounted(Window(MaxX, 0), {NoItem})

LiveNext ==
    \/ Move(LiveBounds)
    \/ Click(LiveBounds)
    \/ ClickGenerated
    \/ EnrichmentResolved
    \/ Close

LiveSpec ==
    /\ LiveInit
    /\ [][LiveNext]_vars
    /\ WF_vars(ClickGenerated)
    /\ WF_vars(EnrichmentResolved)

\* Tile creation alone, with draws on both sides of every threshold: the
\* first render creates the tiles at (0,0) and (1,0), a step to the right the
\* one at (2,0).
FineBiomeDraws == {0, 14, 15, 35, 36, 56, 57, 77, 78, 99}
FinePuzzleDraws == {0, 70, 71, 99}

FineDrawsFor(gs) ==
    [Around(gs.player.position) \ DOMAIN gs.world -> FineBiomeDraws \X FinePuzzleDraws]

TileInit ==
    /\ window = Window(WalkX, 0)
    /\ \E draws \in [{<<0, 0>>, <<1, 0>>} -> FineBiomeDraws \X FinePuzzleDraws],
          sync \in BOOLEAN :
           LET r == tileGenerationEffect(InitialGameState, draws, sync)
           IN  /\ gameState = r.state
               /\ enrichInFlight = IF r.request THEN SetToBag({<<0, 0>>}) ELSE EmptyBag
    /\ storage = NoItem
    /\ puzzleInFlight = EmptyBag
    /\ solveTimers = EmptyBag
    /\ levelUpTimers = EmptyBag
    /\ puzzleCount = 0
    /\ saveCount = 0
    /\ feedback = NoFeedback

\* movePlayer along the row and the position effect that follows it.
TileMove ==
    \E dx \in {-1, 1} :
        LET pos == gameState.player.position
            new == <<pos[1] + dx, pos[2]>>
            moved == [gameState EXCEPT !.player.position = new]
        IN  /\ ~Truthy(gameState.activePuzzle)
            /\ new \in window
            /\ \E draws \in FineDrawsFor(moved), sync \in BOOLEAN :
                   LET r == tileGenerationEffect(moved, draws, sync)
                   IN  /\ gameState' = r.state
                       /\ enrichInFlight' = IF r.request
                                            THEN enrichInFlight (+) SetToBag({new})
                                            ELSE enrichInFlight
            /\ BagCardinality(enrichInFlight') <= WalkEnrich
            /\ feedback' = ModalAfter(gameState', feedback)
            /\ UNCHANGED <<storage, puzzleInFlight, solveTimers, levelUpTimers,
                           puzzleCount, saveCount, window>>

TileNext == TileMove

TileSpec == TileInit /\ [][TileNext]_vars

\* One tile, without persistence: its puzzle requested twice before the first
\* answer, and the stored answer submitted more than once before the
\* resolution is applied.
RepeatBounds ==
    [puzzles |-> RepeatPuzzles, timers |-> RepeatTimers, enrich |-> 1,
     saves |-> 0, logs |-> RepeatLogs, noise |-> 1]

RepeatInit == Mounted(Window(0, 0), {NoItem})

\* The player types the stored answer as it is.
RepeatSubmit ==
    /\ Truthy(gameState.activePuzzle)
    /\ "answer" \in DOMAIN gameState.activePuzzle
    /\ handleSubmit(gameState.activePuzzle.answer)
    /\ BagCardinality(solveTimers') <= RepeatBounds.timers

RepeatNext ==
    \/ Click(RepeatBounds)
    \/ Generated
    \/ RepeatSubmit
    \/ Solved(RepeatBounds)

RepeatSpec == RepeatInit /\ [][RepeatNext]_vars

\* ------------------------------------------------------------------ claims
world == gameState.world
player == gameState.player

Tiles == DOMAIN gameState.world

\* A generation request is awaited and no puzzle is attached / one is attached.
Pending == puzzleInFlight # EmptyBag /\ ~Truthy(gameState.activePuzzle)
Active == Truthy(gameState.activePuzzle)
Idle == puzzleInFlight = EmptyBag /\ ~Truthy(gameState.activePuzzle)

\* The step restores a saved session.
Restores == Restorable(storage) /\ loadGame

\* Some tile's isSolved becomes true in the step.
SomeTileSolvedNow ==
    \E c \in DOMAIN gameState'.world :
        /\ Flag(gameState'.world[c], "isSolved")
        /\ ~Flag(TileAt(gameState.world, c), "isSolved")

\* C1: in every reachable state every tile with isSolved = true has
\* hasPuzzle = true.
C1_SolvedImpliesPuzzle ==
    \A c \in Tiles : Flag(world[c], "isSolved") => Flag(world[c], "hasPuzzle")

\* C2: when an enrichment for a tile resolves and the tile's description is
\* no longer the pending sentinel, the result is dropped: description and
\* visualFeature keep their values.
C2_LateEnrichmentDropped ==
    [][\A c \in BagToSet(enrichInFlight) :
          ( /\ enrichInFlight' = enrichInFlight (-) SetToBag({c})
            /\ c \in Tiles
            /\ Str(world[c], "description") # Scanning )
          => /\ Str(gameState'.world[c], "description") = Str(world[c], "description")
             /\ Str(gameState'.world[c], "visualFeature") = Str(world[c], "visualFeature")
      ]_vars

\* C3: a move request leaves the position unchanged whenever the puzzle
\* engine is not idle (a puzzle is active, or a generation is pending).
C3_MoveLockedUnlessIdle ==
    [][\A d \in {<<0, -1>>, <<0, 1>>, <<-1, 0>>, <<1, 0>>} :
          (~Idle /\ movePlayer(d[1], d[2]))
          => gameState'.player.position = player.position
      ]_vars

\* C4: a puzzle generation request is started only from the idle state, so
\* at most one is in flight and an active puzzle is never replaced.
C4_GenerationOnlyFromIdle ==
    [][puzzleCount' # puzzleCount => Idle]_vars

\* C5: a correct resolution marks as solved the tile at the coordinate where
\* the puzzle was generated.
C5_ResolutionSolvesOrigin ==
    [][\A snap \in BagToSet(solveTimers) :
          solveTimerFires(snap)
          => Flag(TileAt(gameState'.world, snap.activePuzzle.origin), "isSolved")
      ]_vars

\* C6: experience rises and a tile becomes solved only in a step that
\* resolves the puzzle that is active at that moment (a restore apart), and
\* dismissing a puzzle leaves the player and every tile unchanged.
C6_RewardOnlyForActivePuzzle ==
    [][ /\ (~Restores /\ (gameState'.player.xp > player.xp \/ SomeTileSolvedNow))
           => \E snap \in BagToSet(solveTimers) :
                 solveTimerFires(snap) /\ snap.activePuzzle = gameState.activePuzzle
        /\ onClose => (gameState'.player = player /\ gameState'.world = world)
      ]_vars

\* C7: a correct resolution is one step that sets the source tile's isSolved,
\* adds XP_PER_PUZZLE to the experience with the level recomputed, and
\* clears the active puzzle.
C7_ResolutionAtomic ==
    [][\A snap \in BagToSet(solveTimers) :
          solveTimerFires(snap)
          => /\ Flag(TileAt(gameState'.world, snap.activePuzzle.origin), "isSolved")
             /\ gameState'.player.xp = player.xp + XP_PER_PUZZLE
             /\ gameState'.player.level = (gameState'.player.xp \div XP_PER_LEVEL) + 1
             /\ ~Truthy(gameState'.activePuzzle)
      ]_vars

\* C8: in every reachable state level = floor(xp / 500) + 1.
C8_LevelFromXp == player.level = (player.xp \div XP_PER_LEVEL) + 1

\* C8 witness: a resolution has raised the level.
C8_LevelTwoReached == player.xp >= 500 /\ player.level = 2

\* C9: ensureTile is idempotent: at every coordinate, a call followed by
\* another with different draws leaves what the first call left (a tile is
\* there, with the first call's biome, hasPuzzle and isSolved), and a call
\* at a coordinate that has a tile changes nothing.
C9_EnsureTileIdempotent ==
    \A c \in window : \A d1, d2 \in BiomeDraws \X PuzzleDraws :
        LET once == ensureTileExists(gameState, c, d1[1], d1[2])
            twice == ensureTileExists(once, c, d2[1], d2[2])
        IN  /\ c \in DOMAIN once.world
            /\ twice = once
            /\ c \in Tiles => once = gameState
            /\ c \notin Tiles => once.world[c] = NewTile(c, d1[1], d1[2])

\* C9 witness: the tile at the far end was created when the player came next
\* to it, and the generator was called on it again when the player stepped
\* onto it.
C9_TileCreatedThenRevisited ==
    /\ player.position = <<WalkX, 0>>
    /\ <<WalkX, 0>> \in Tiles
    /\ world[<<WalkX, 0>>].description # Scanning

\* The tile keeps its biome and its hasPuzzle flag.
SameKind(t, u) ==
    /\ Str(t, "biome") = Str(u, "biome")
    /\ Flag(t, "hasPuzzle") = Flag(u, "hasPuzzle")

\* C10 as stated: once a tile exists at c, every later state has a tile at c
\* with the same biome and hasPuzzle, whatever operation occurs, load
\* included.
C10_TilesKeptAlways ==
    [][\A c \in Tiles :
          c \in DOMAIN gameState'.world /\ SameKind(world[c], gameState'.world[c])
      ]_vars

\* C10 amended: every operation other than a successful load keeps every
\* existing tile, with the same biome and hasPuzzle.
C10_TilesKeptExceptByRestore ==
    [][Restores \/ \A c \in Tiles :
          c \in DOMAIN gameState'.world /\ SameKind(world[c], gameState'.world[c])
      ]_vars

\* C10 witness: a tile that was enriched and then solved still has its biome.
C10_TileEnrichedAndSolved ==
    \E c \in Tiles :
        /\ Flag(world[c], "isSolved")
        /\ Str(world[c], "description") \notin {Scanning, UndefinedStr}
        /\ Str(world[c], "biome") \in BiomeType
        /\ player.xp = XP_PER_PUZZLE

logs == gameState.logs

\* C11: in every reachable state every tile whose biome is the reality node
\* has hasPuzzle = true.
C11_RealityNodeHasPuzzle ==
    \A c \in Tiles :
        Str(world[c], "biome") = REALITY_NODE => Flag(world[c], "hasPuzzle")

\* C11 witness: a reality node that was enriched and solved.
C11_RealityNodeEnrichedAndSolved ==
    \E c \in Tiles :
        /\ Str(world[c], "biome") = REALITY_NODE
        /\ Flag(world[c], "isSolved")
        /\ Str(world[c], "description") = "Rusted antenna hums."

\* C15: experience and level never decrease, on any step of the session, and
\* the experience is never negative.
C15_ProgressNeverDecreases ==
    [][ /\ gameState'.player.xp >= player.xp
        /\ gameState'.player.level >= player.level
        /\ gameState'.player.xp >= 0
      ]_vars

\* s is a prefix of t.
IsPrefix(s, t) == Len(s) <= Len(t) /\ SubSeq(t, 1, Len(s)) = s

\* C16 as stated: on every step the log before is a prefix of the log after.
C16_LogAppendOnly == [][IsPrefix(logs, gameState'.logs)]_vars

\* C16 amended: on every step other than a successful load the log before is
\* a prefix of the log after; a successful load replaces the log by the saved
\* log followed by the entry that reports the load.
C16_LogAppendOnlyExceptRestore ==
    [][IF Restores
       THEN gameState'.logs =
                Append(JSONparse(storage).logs,
                       LogEntry("SYSTEM RESTORED FROM BACKUP. [STATE LOADED]", "success"))
       ELSE IsPrefix(logs, gameState'.logs)
      ]_vars

\* C16 witness: a session without a save to load has logged a request, a
\* resolution and more.
C16_LogGrown ==
    /\ storage = NoItem
    /\ Len(logs) >= 4
    /\ logs[1] = INITIAL_LOG
    /\ logs[2].message = "Interfacing with node logic..."
    /\ \E i \in 3..Len(logs) : logs[i].message = "Logic Gate Bypassed."

\* C18: an incorrect submission leaves the session as it was (position, XP,
\* level, tiles, log, the active puzzle), schedules nothing, and the puzzle
\* can be submitted to again.
C18_IncorrectSubmissionChangesNothing ==
    [][ ( \/ feedback' = "INCORRECT" /\ feedback # "INCORRECT"
          \/ /\ feedback = "INCORRECT"
             /\ Active /\ "answer" \in DOMAIN gameState.activePuzzle
             /\ \E a \in Submissions :
                   /\ ~isCorrect(a, gameState.activePuzzle.answer)
                   /\ handleSubmit(a) )
        => /\ UNCHANGED <<gameState, storage, solveTimers, levelUpTimers,
                          enrichInFlight, puzzleInFlight>>
           /\ Truthy(gameState'.activePuzzle)
           /\ feedback' = "INCORRECT"
      ]_vars

\* C18 witness: a puzzle is still open after an incorrect submission, with
\* nothing scheduled and nothing granted.
C18_RetriedAfterIncorrect ==
    /\ Active
    /\ feedback = "INCORRECT"
    /\ solveTimers = EmptyBag
    /\ player.xp = 0
    /\ \A c \in Tiles : ~Flag(world[c], "isSolved")

\* The session as it was before the last log entry was appended.
BeforeLastLog == [gameState EXCEPT !.logs = SubSeq(@, 1, Len(@) - 1)]

\* The state is the one a successful save has just left: the slot holds the
\* session as it was before the entry reporting the save (the busy flag
\* apart).
JustSaved ==
    /\ Restorable(storage)
    /\ Len(logs) > 1
    /\ logs[Len(logs)] = LogEntry("SYSTEM BACKUP COMPLETE. [STATE SAVED]", "success")
    /\ [JSONparse(storage) EXCEPT !.isGenerating = FALSE]
           = [BeforeLastLog EXCEPT !.isGenerating = FALSE]

C13_FailedLoadChangesNothing ==
    [][(~Restorable(storage) /\ loadGame)
       => /\ [gameState' EXCEPT !.logs = logs] = gameState
          /\ Len(gameState'.logs) = Len(logs) + 1
          /\ IsPrefix(logs, gameState'.logs)
          /\ gameState'.logs[Len(logs) + 1].type \in {"warning", "error"}
          /\ UNCHANGED <<storage, enrichInFlight, puzzleInFlight, solveTimers,
                         levelUpTimers, feedback>>
      ]_vars

\* C13 witness: with a puzzle open, a load of an item that does not parse or
\* lacks a field has failed.
C13_LoadFailedWithPuzzleOpen ==
    /\ storage \in {Garbage, NoPlayerSave, NoWorldSave}
    /\ Active
    /\ logs[Len(logs)] = LogEntry("RESTORE FAILED: CORRUPT DATA.", "error")

\* C14: on every step (a restore apart) a tile that is solved stays solved,
\* and a resolution applied at a coordinate whose tile is already solved, or
\* that has no tile, is a no-op for the world: the tile is as it was, and no
\* tile record is created.
C14_SolvedIsPermanent ==
    [][~Restores
       => /\ \A c \in Tiles :
                Flag(world[c], "isSolved")
                => Flag(TileAt(gameState'.world, c), "isSolved")
          /\ \A snap \in BagToSet(solveTimers) :
                solveTimerFires(snap)
                => /\ snap.position \notin Tiles
                          => snap.position \notin DOMAIN gameState'.world
                   /\ (snap.position \in Tiles
                       /\ Flag(world[snap.position], "isSolved"))
                          => gameState'.world[snap.position] = world[snap.position]
      ]_vars

\* C19: a resolution schedules the level-up notification once when it raises
\* the level, and schedules none when the level does not rise.
C19_LevelUpOncePerRise ==
    [][\A snap \in BagToSet(solveTimers) :
          solveTimerFires(snap)
          => levelUpTimers' =
                 IF gameState'.player.level > player.level
                 THEN levelUpTimers (+) SetToBag({gameState'.player.level})
                 ELSE levelUpTimers
      ]_vars

\* Lower-casing and trimming, stated on positions: each upper-case letter is
\* replaced by its lower-case one, and what is kept runs from the first to
\* the last character that is not a space.
CasePairs ==
    {<<"K", "k">>, <<"E", "e">>, <<"Y", "y">>, <<"C", "c">>, <<"T", "t">>, <<"H", "h">>}

Lowered(s) ==
    [i \in 1..Len(s) |->
        IF \E p \in CasePairs : p[1] = s[i]
        THEN (CHOOSE p \in CasePairs : p[1] = s[i])[2]
        ELSE s[i]]

Stripped(s) ==
    LET kept == {i \in 1..Len(s) : s[i] # " "}
    IN  IF kept = {} THEN <<>>
        ELSE LET first == CHOOSE i \in kept : \A j \in kept : i <= j
                 last == CHOOSE i \in kept : \A j \in kept : j <= i
             IN  [k \in 1..(last - first + 1) |-> s[first + k - 1]]

Contains(s, t) ==
    \E shift \in 0..Len(s) :
        /\ shift + Len(t) <= Len(s)
        /\ \A k \in 1..Len(t) : s[shift + k] = t[k]

Accepts(submission, stored) ==
    LET a == Stripped(Lowered(submission))
        b == Stripped(Lowered(stored))
    IN  a = b \/ Contains(a, b)

\* C17: a submission is accepted (feedback CORRECT, the resolution scheduled)
\* exactly when, both strings trimmed and lower-cased, it equals the stored
\* answer or contains it; for the answer "4", "4" and "the answer is 4" are
\* accepted and "5" is rejected.
C17_AcceptsEqualOrContaining ==
    [][\A a \in TypedAnswers :
          (Active /\ handleSubmit(a))
          => /\ (feedback' = "CORRECT") = Accepts(a, gameState.activePuzzle.answer)
             /\ (feedback' = "INCORRECT") = ~Accepts(a, gameState.activePuzzle.answer)
             /\ (solveTimers' # solveTimers) = Accepts(a, gameState.activePuzzle.answer)
             /\ isCorrect(<<"4">>, <<"4">>)
             /\ isCorrect(<<"t", "h", "e", " ", "a", "n", "s", "w", "e", "r", " ",
                            "i", "s", " ", "4">>, <<"4">>)
             /\ ~isCorrect(<<"5">>, <<"4">>)
      ]_vars

\* C17 witness: for the stored answer " Key ", which no typed answer equals
\* once normalised, a submission was accepted and its resolution is pending.
C17_ContainingAccepted ==
    /\ Active
    /\ gameState.activePuzzle.answer = <<" ", "K", "e", "y", " ">>
    /\ feedback = "CORRECT"
    /\ solveTimers # EmptyBag

\* C20: a move that is accepted (no puzzle is open) changes the position to
\* exactly (x + dx, y + dy), and after it a tile exists at each of the nine
\* coordinates within radius 1 of the new position.
C20_MoveGeneratesNeighbourhood ==
    [][\A d \in {<<0, -1>>, <<0, 1>>, <<-1, 0>>, <<1, 0>>} :
          (~Truthy(gameState.activePuzzle) /\ movePlayer(d[1], d[2]))
          => LET new == <<player.position[1] + d[1], player.position[2] + d[2]>>
             IN  /\ gameState'.player.position = new
                 /\ \A nx, ny \in -1..1 :
                        <<new[1] + nx, new[2] + ny>> \in DOMAIN gameState'.world
      ]_vars

\* C20 witness: from (0,0) the player has moved right to (1,0), and the nine
\* tiles around (1,0) exist, the three new ones included.
C20_MovedRight ==
    /\ player.position = <<1, 0>>
    /\ Len(logs) = 1
    /\ \A nx, ny \in -1..1 : <<1 + nx, ny>> \in Tiles
    /\ \A ny \in -1..1 : Str(world[<<2, ny>>], "description") = Scanning


\* The Manhattan distance from the player's position to c.
ManhattanTo(c) ==
    LET dx == c[1] - player.position[1]
        dy == c[2] - player.position[2]
    IN  (IF dx < 0 THEN 0 - dx ELSE dx) + (IF dy < 0 THEN 0 - dy ELSE dy)

\* Nothing but the log changes, and the log grows by one entry of the type.
OnlyLogged(type) ==
    /\ gameState'.player = gameState.player
    /\ gameState'.world = gameState.world
    /\ gameState'.activePuzzle = gameState.activePuzzle
    /\ gameState'.isGenerating = gameState.isGenerating
    /\ Len(gameState'.logs) = Len(logs) + 1
    /\ SubSeq(gameState'.logs, 1, Len(logs)) = logs
    /\ gameState'.logs[Len(logs) + 1].type = type
    /\ UNCHANGED <<storage, enrichInFlight, puzzleInFlight, solveTimers,
                   levelUpTimers, puzzleCount, saveCount>>

\* C21: an interaction with a tile at Manhattan distance greater than 1 from
\* the player is rejected: the player, the world, the active puzzle and
\* isGenerating are unchanged, no content request is made, and exactly one
\* warning log entry is appended.
C21_OutOfRangeRejected ==
    [][\A c \in window :
          (ManhattanTo(c) > 1 /\ handleTileClick(c)) => OnlyLogged("warning")
      ]_vars

\* C21 witness: back at (0,0) after a step to the right, the player has
\* clicked the tile at (2,0) and the warning is the last log entry.
C21_FarClickRefused ==
    /\ player.position = <<0, 0>>
    /\ <<2, 0>> \in Tiles
    /\ Len(logs) = 2
    /\ logs[2] = LogEntry("Target out of range.", "warning")
    /\ puzzleCount = 0

\* A generatePuzzle call is added to those awaited.
PuzzleRequested ==
    \E r \in BagToSet(puzzleInFlight') :
        CopiesIn(r, puzzleInFlight') > CopiesIn(r, puzzleInFlight)

\* C22: puzzle generation is requested only by an interaction at distance 0
\* with a tile that has a puzzle and is not solved; an interaction at
\* distance 1 with such a tile appends a warning log entry, requests no
\* generation and changes nothing else.
C22_GenerationOnlyAtDistanceZero ==
    [][/\ (PuzzleRequested \/ puzzleCount' # puzzleCount)
          => /\ Flag(world[player.position], "hasPuzzle")
             /\ ~Flag(world[player.position], "isSolved")
             /\ handleTileClick(player.position)
       /\ \A c \in window \cap Tiles :
              (/\ ManhattanTo(c) = 1
               /\ Flag(world[c], "hasPuzzle")
               /\ ~Flag(world[c], "isSolved")
               /\ handleTileClick(c))
              => OnlyLogged("warning")
      ]_vars

\* C22 witness: the player was told to move closer to a puzzle tile, and a
\* generation requested on the player's own tile is awaited.
C22_RefusedNextToThenRequestedOn ==
    /\ \E i \in 1..Len(logs) : logs[i] = LogEntry("Move closer to interface.", "warning")
    /\ Pending
    /\ puzzleCount = 1
    /\ \E r \in BagToSet(puzzleInFlight) : r.origin = player.position


\* A parsed answer without one of the fields the puzzle is built from.
Malformed(biome, resp) ==
    /\ resp.kind = "json"
    /\ ~((IF biome = REALITY_NODE THEN {"question", "correctAnswer"}
          ELSE {"question", "answer"}) \subseteq DOMAIN resp)

\* C23: when the backend's puzzle output lacks the question or the answer
\* (the empty object included), generatePuzzle and its grounded variant return
\* the fallback they return on failure, so a puzzle whose question or answer
\* is undefined is never attached.
C23_MalformedOutputGivesFallback ==
    [][/\ \A req \in BagToSet(puzzleInFlight) :
            \A resp \in PuzzleResponses \cup GroundedResponses :
                \A perm \in Perms(NumOptions(resp)) :
                    (Malformed(req.biome, resp) /\ puzzleGenerated(req, resp, perm))
                    => gameState'.activePuzzle =
                           generatePuzzle(req.biome, [kind |-> "failure"], req.uuid, <<>>)
                           @@ [origin |-> req.origin]
       /\ Truthy(gameState'.activePuzzle)
          => {"question", "answer"} \subseteq DOMAIN gameState'.activePuzzle
      ]_vars


\* An answer to a description request that is a failure or lacks a field.
Incomplete(resp) ==
    resp.kind = "failure" \/ ~({"description", "visualFeature"} \subseteq DOMAIN resp)

\* C24: describeTile always resolves, and when the backend fails or its answer
\* is empty, unparseable or lacks description or visualFeature, it returns the
\* pair ("Static interference blocks your sensors.", "Glitch"); a tile's
\* description is never undefined.
C24_IncompleteContentGivesFallback ==
    [][/\ \A c \in BagToSet(enrichInFlight) : \A resp \in TileResponses :
              (Incomplete(resp) /\ enrichmentResolved(c, resp))
              => /\ Str(gameState'.world[c], "description")
                        = "Static interference blocks your sensors."
                 /\ Str(gameState'.world[c], "visualFeature") = "Glitch"
       /\ \A c \in DOMAIN gameState'.world :
              Str(gameState'.world[c], "description") # UndefinedStr
      ]_vars


\* C25: generatePuzzle always resolves: every awaited call ends with a puzzle
\* attached and no error entry logged.  When the backend fails the puzzle is
\* the fallback, with solved false: of kind logic with answer "4" for a tile
\* that is not a reality node, of kind reality-check with the current year as
\* answer for a reality node.
C25_FailureGivesFallbackPuzzle ==
    [][/\ \A req \in BagToSet(puzzleInFlight) : \A perm \in Perms(1) :
              puzzleGenerated(req, [kind |-> "failure"], perm)
              => LET p == gameState'.activePuzzle
                 IN  /\ p.solved = FALSE
                     /\ p.id = req.uuid
                     /\ IF req.biome = REALITY_NODE
                        THEN p.type = "reality_check" /\ p.answer = CurrentYear
                        ELSE p.type = "logic" /\ p.answer = <<"4">>
       /\ (\E req \in BagToSet(puzzleInFlight) :
               CopiesIn(req, puzzleInFlight') < CopiesIn(req, puzzleInFlight))
          => /\ Truthy(gameState'.activePuzzle)
             /\ gameState'.activePuzzle.solved = FALSE
             /\ ~gameState'.isGenerating
             /\ gameState'.logs = gameState.logs
      ]_vars

\* C25 witness: the request made on a reality node failed, and the puzzle
\* asking for the current year is open.
C25_YearPuzzleOpen ==
    /\ Active
    /\ {"type", "answer"} \subseteq DOMAIN gameState.activePuzzle
    /\ world[gameState.activePuzzle.origin].biome = REALITY_NODE
    /\ gameState.activePuzzle.type = "reality_check"
    /\ gameState.activePuzzle.answer = CurrentYear
    /\ "options" \notin DOMAIN gameState.activePuzzle
    /\ puzzleInFlight = EmptyBag
    /\ ~gameState.isGenerating


\* The number of places of the sequence s that hold v.
Occurrences(s, v) == Cardinality({i \in 1..Len(s) : s[i] = v})

\* s and t hold the same elements, each as many times.
IsPermutationOf(s, t) ==
    /\ Len(s) = Len(t)
    /\ \A i \in 1..Len(t) : Occurrences(s, t[i]) = Occurrences(t, t[i])

\* C26: a grounded puzzle built from the wrong options W and the correct
\* answer a has as its options a permutation of W followed by a, and a as its
\* answer, so the answer is one of the options; for W = [A, B] and a = C the
\* options hold A, B and C exactly once each.
C26_OptionsArePermutation ==
    [][\A req \in BagToSet(puzzleInFlight) : \A resp \in GroundedResponses :
          \A perm \in Perms(NumOptions(resp)) :
              (/\ req.biome = REALITY_NODE
               /\ "correctAnswer" \in DOMAIN resp
               /\ puzzleGenerated(req, resp, perm))
              => LET p == gameState'.activePuzzle
                     W == IF "wrongOptions" \in DOMAIN resp
                          THEN resp.wrongOptions ELSE <<>>
                 IN  /\ IsPermutationOf(p.options, W \o <<resp.correctAnswer>>)
                     /\ p.answer = resp.correctAnswer
                     /\ \E i \in 1..Len(p.options) : p.options[i] = p.answer
                     /\ W = << <<"A">>, <<"B">> >>
                        => \A v \in {<<"A">>, <<"B">>, <<"C">>} :
                               Occurrences(p.options, v) = 1
      ]_vars

\* C26 witness: a grounded puzzle is open whose three options are C, A and B
\* in an order that puts the answer C first.
C26_AnswerShuffledToFront ==
    /\ Active
    /\ {"options", "answer"} \subseteq DOMAIN gameState.activePuzzle
    /\ Len(gameState.activePuzzle.options) = 3
    /\ gameState.activePuzzle.options[1] = <<"C">>
    /\ gameState.activePuzzle.answer = <<"C">>


\* The tile at c is there and its content is still the pending sentinel.
PendingContent(c) ==
    c \in Tiles /\ Str(world[c], "description") = Scanning

\* C27: whenever the player stands on a tile whose content is pending, an
\* enrichment request for that tile is issued, and as the backend answers or
\* fails in the end, the tile's description eventually is not pending.
C27_PendingTileEventuallyDescribed ==
    \A c \in Window(MaxX, 0) :
        (player.position = c /\ PendingContent(c)) ~> ~PendingContent(c)


\* C28: after an interaction at distance 0 with an unsolved puzzle tile, as
\* the backend answers or fails in the end, the session eventually is Active
\* and isGenerating is false: it never stays Pending for ever.
C28_PendingLeadsToActive ==
    Pending ~> (Active /\ ~gameState.isGenerating)

\* C28 witness: the one request made has been answered; a puzzle is open and
\* isGenerating is false.
C28_RequestAnswered ==
    /\ puzzleCount = 1
    /\ puzzleInFlight = EmptyBag
    /\ Active
    /\ ~gameState.isGenerating
    /\ logs[Len(logs)] = LogEntry("Interfacing with node logic...", "info")


\* C29: every log entry has a severity among info, success, warning and
\* danger, the entries that report a failed save or a failed load included.
C29_LogSeverities ==
    \A i \in 1..Len(logs) : logs[i].type \in {"info", "success", "warning", "danger"}


\* The biome of a draw of r hundredths, by the interval r lies in.
BiomeByInterval(r) ==
    CASE r \in 0..14 -> REALITY_NODE
      [] r \in 15..35 -> QUANTUM_FLUX
      [] r \in 36..56 -> SERVER_CITY
      [] r \in 57..77 -> NEON_FOREST
      [] OTHER -> DATA_WASTELAND

\* The tile c is to be created as, for the draws r and q.
CreatedAs(c, r, q) ==
    [id |-> c, x |-> c[1], y |-> c[2],
     biome |-> BiomeByInterval(r),
     description |-> "Scanning...",
     explored |-> FALSE,
     hasPuzzle |-> (BiomeByInterval(r) = REALITY_NODE \/ q > 70),
     isSolved |-> FALSE,
     visualFeature |-> "..."]

\* C30: a new tile's biome is a function of one uniform draw r: reality node
\* for r < 0.15, flux for 0.15 <= r < 0.36, city for 0.36 <= r < 0.57, forest
\* for 0.57 <= r < 0.78, wasteland otherwise.  Its hasPuzzle is true for a
\* reality node and otherwise exactly when a second draw exceeds 0.7.  It is
\* created unsolved and with the pending content fields.
C30_TileFromDraws ==
    /\ \A r \in FineBiomeDraws, q \in FinePuzzleDraws :
           NewTile(player.position, r, q) = CreatedAs(player.position, r, q)
    /\ \A c \in Tiles :
           \E r \in FineBiomeDraws, q \in FinePuzzleDraws : world[c] = CreatedAs(c, r, q)

\* C30 witness: after a step to the right the row holds a flux tile without
\* puzzle, a wasteland tile with one and a reality node.
C30_ThreeKindsCreated ==
    /\ player.position = <<1, 0>>
    /\ world[<<0, 0>>].biome = QUANTUM_FLUX /\ ~world[<<0, 0>>].hasPuzzle
    /\ world[<<1, 0>>].biome = DATA_WASTELAND /\ world[<<1, 0>>].hasPuzzle
    /\ <<2, 0>> \in Tiles
    /\ world[<<2, 0>>].biome = REALITY_NODE /\ world[<<2, 0>>].hasPuzzle
    /\ world[<<2, 0>>].description = Scanning


\* The tiles that are marked solved.
SolvedTiles == {c \in Tiles : Flag(world[c], "isSolved")}

\* C31: in a run without load, player.xp is 100 times the number of tiles
\* with isSolved true, in every reachable state: a puzzle tile yields its
\* reward at most once, also when several generations were started for it.
C31_XpCountsSolvedTiles ==
    player.xp = 100 * Cardinality(SolvedTiles)

\* C32: whenever a puzzle is active, the tile at the player's position
\* exists, has hasPuzzle true and isSolved false.
C32_ActivePuzzleOnOpenPuzzleTile ==
    Active => /\ player.position \in Tiles
              /\ Flag(world[player.position], "hasPuzzle")
              /\ ~Flag(world[player.position], "isSolved")

\* C33: every entry of the world map is a complete tile record: its key is
\* the pair of its own x and y, and it carries biome, hasPuzzle and isSolved;
\* no enrichment or resolution that completes after a load creates a partial
\* record at a coordinate without tile.
C33_TilesAreComplete ==
    \A c \in Tiles :
        /\ {"x", "y", "biome", "hasPuzzle", "isSolved"} \subseteq DOMAIN world[c]
        /\ c = <<world[c].x, world[c].y>>

\* C34: a correct resolution sets the experience to exactly 100 more than
\* the experience of the state it is applied to, also when a load or another
\* resolution changed the experience after the correct submission.
C34_ResolutionAddsToCurrentXp ==
    [][\A snap \in BagToSet(solveTimers) :
          solveTimerFires(snap)
          => gameState'.player.xp = gameState.player.xp + 100
      ]_vars

\* C36: isGenerating is true exactly when a content request, tile enrichment
\* or puzzle generation, is in flight: a completion does not clear the flag
\* while another request is in flight, and the flag is false when none is.
C36_FlagTracksRequests ==
    gameState.isGenerating
        = (enrichInFlight # EmptyBag \/ puzzleInFlight # EmptyBag)


\* The entries of the log that report a correct resolution.
Resolutions == {i \in 1..Len(logs) : logs[i].message = "Logic Gate Bypassed."}

\* C35: each active puzzle is resolved correctly at most once: a correct
\* answer submitted several times before the delayed onSolve fires gives one
\* resolution, with one XP grant and one success log entry.  So the log never
\* reports more resolutions than puzzles were attached.
C35_OneResolutionPerPuzzle ==
    Cardinality(Resolutions) <= puzzleCount - BagCardinality(puzzleInFlight)

====
